---- MODULE Spec2Model ----
(***************************************************************************)
(* Model of scripts/semantic_release_workflow.py: PackageVersionManager    *)
(* and the script's main block.  Text (commit messages, version strings,   *)
(* tag names) is a sequence of one-character strings, so that parsing and  *)
(* formatting are computed rather than assumed.                            *)
(***************************************************************************)
EXTENDS Integers, Sequences, FiniteSets, TLC

----------------------------------------------------------------------------
(* Bounds of the model *)

\* commits in the history after the root commit
MaxCommits == 2
\* invocations of the script in one behaviour
MaxRuns == 2
\* failures of external commands and file writes in one behaviour
MaxFaults == 1
\* patch bumps one tag resolution may make before the model stops following it
MaxRetries == 4

----------------------------------------------------------------------------
(* Text *)

NL == "\n"
None == "None"

Digits == <<"0", "1", "2", "3", "4", "5", "6", "7", "8", "9">>
UpperLetters == <<"A", "B", "C", "D", "E", "F", "G", "H", "I", "J", "K", "L", "M",
                  "N", "O", "P", "Q", "R", "S", "T", "U", "V", "W", "X", "Y", "Z">>
LowerLetters == <<"a", "b", "c", "d", "e", "f", "g", "h", "i", "j", "k", "l", "m",
                  "n", "o", "p", "q", "r", "s", "t", "u", "v", "w", "x", "y", "z">>

Letters == {LowerLetters[i] : i \in 1..26} \cup {UpperLetters[i] : i \in 1..26}
IsUpper(c) == c \in {UpperLetters[i] : i \in 1..26}
IsDigit(c) == c \in {Digits[i] : i \in 1..10}
DigitVal(c) == (CHOOSE i \in 1..10 : Digits[i] = c) - 1
IsSpace(c) == c \in {" ", NL, "\t"}
\* the character class \w of Python's re
IsWord(c) == IsDigit(c) \/ c = "_" \/ c \in Letters

\* str.lower(), character by character
LowerChar(c) ==
    IF IsUpper(c)
    THEN LowerLetters[CHOOSE i \in 1..26 : UpperLetters[i] = c]
    ELSE c
Lower(s) == [i \in 1..Len(s) |-> LowerChar(s[i])]

\* str.strip()
Strip(s) ==
    LET keep == {i \in 1..Len(s) : ~IsSpace(s[i])}
    IN  IF keep = {} THEN <<>>
        ELSE LET lo == CHOOSE i \in keep : \A j \in keep : i <= j
                 hi == CHOOSE i \in keep : \A j \in keep : j <= i
             IN  SubSeq(s, lo, hi)

\* the test `sub in s` on strings
Contains(s, sub) ==
    \E i \in 1..(Len(s) - Len(sub) + 1) : SubSeq(s, i, i + Len(sub) - 1) = sub

\* str.split(sep) for a one-character separator: always at least one piece
RECURSIVE Split(_, _)
Split(s, sep) ==
    LET at == {i \in 1..Len(s) : s[i] = sep}
    IN  IF at = {} THEN <<s>>
        ELSE LET k == CHOOSE i \in at : \A j \in at : i <= j
             IN  <<SubSeq(s, 1, k - 1)>> \o Split(SubSeq(s, k + 1, Len(s)), sep)

\* str.splitlines(): no piece for the empty text nor after a final line break
SplitLines(s) ==
    IF s = <<>> THEN <<>>
    ELSE LET parts == Split(s, NL)
         IN  IF parts[Len(parts)] = <<>> THEN SubSeq(parts, 1, Len(parts) - 1)
             ELSE parts

\* sep.join(parts)
RECURSIVE Join(_, _)
Join(parts, sep) ==
    IF parts = <<>> THEN <<>>
    ELSE IF Len(parts) = 1 THEN parts[1]
    ELSE parts[1] \o sep \o Join(Tail(parts), sep)

\* str(n) for an integer
RECURSIVE NatToStr(_)
NatToStr(n) ==
    IF n < 10 THEN <<Digits[n + 1]>>
    ELSE NatToStr(n \div 10) \o <<Digits[(n % 10) + 1]>>
IntToStr(n) == IF n < 0 THEN <<"-">> \o NatToStr(0 - n) ELSE NatToStr(n)

\* the value of a string of digits
RECURSIVE DigitsToNat(_)
DigitsToNat(s) ==
    IF s = <<>> THEN 0
    ELSE 10 * DigitsToNat(SubSeq(s, 1, Len(s) - 1)) + DigitVal(s[Len(s)])

\* int(s): surrounding blanks and one sign are accepted, then digits only.
\* ok = FALSE stands for the ValueError
ParseInt(s) ==
    LET t == Strip(s)
        signed == t # <<>> /\ t[1] \in {"-", "+"}
        body == IF signed THEN Tail(t) ELSE t
    IN  IF body # <<>> /\ \A i \in 1..Len(body) : IsDigit(body[i])
        THEN [ok |-> TRUE,
              val |-> IF signed /\ t[1] = "-" THEN 0 - DigitsToNat(body)
                      ELSE DigitsToNat(body)]
        ELSE [ok |-> FALSE, val |-> 0]

----------------------------------------------------------------------------
(* Version arithmetic and tag names *)

\* f"{major}.{minor}.{patch}"
FormatVersion(major, minor, patch) ==
    IntToStr(major) \o <<".">> \o IntToStr(minor) \o <<".">> \o IntToStr(patch)

\* _bump_version leaving the patch component as it is on a minor bump
bump_version_keeps_patch(current_version, bump_type) ==
    LET parts == Split(current_version, ".")
        ints == [i \in 1..Len(parts) |-> ParseInt(parts[i])]
    IN  IF Len(parts) # 3 \/ \E i \in 1..Len(parts) : ~ints[i].ok
        THEN [ok |-> FALSE, v |-> current_version]
        ELSE CASE bump_type = "major" ->
                    [ok |-> TRUE, v |-> FormatVersion(ints[1].val + 1, 0, 0)]
               [] bump_type = "minor" ->
                    [ok |-> TRUE,
                     v |-> FormatVersion(ints[1].val, ints[2].val + 1, ints[3].val)]
               [] bump_type = "patch" ->
                    [ok |-> TRUE,
                     v |-> FormatVersion(ints[1].val, ints[2].val, ints[3].val + 1)]
               [] OTHER -> [ok |-> TRUE, v |-> current_version]

\* _bump_version: ok = FALSE stands for the ValueError that is re-raised when
\* the text does not unpack into exactly three integers
bump_version(current_version, bump_type) ==
    LET parts == Split(current_version, ".")
        ints == [i \in 1..Len(parts) |-> ParseInt(parts[i])]
    IN  IF Len(parts) # 3 \/ \E i \in 1..Len(parts) : ~ints[i].ok
        THEN [ok |-> FALSE, v |-> current_version]
        ELSE LET major == ints[1].val
                 minor == ints[2].val
                 patch == ints[3].val
             IN  CASE bump_type = "major" ->
                        [ok |-> TRUE, v |-> FormatVersion(major + 1, 0, 0)]
                   [] bump_type = "minor" ->
                        [ok |-> TRUE, v |-> FormatVersion(major, minor + 1, 0)]
                   [] bump_type = "patch" ->
                        [ok |-> TRUE, v |-> FormatVersion(major, minor, patch + 1)]
                   [] OTHER -> [ok |-> TRUE, v |-> current_version]

\* semver.Version.parse accepts three dot-separated numerals without sign or
\* leading zero (a pre-release or build suffix cannot occur in the output of
\* _bump_version, the only text it is given); str() of the result is the text
IsNumeral(s) ==
    /\ s # <<>>
    /\ \A i \in 1..Len(s) : IsDigit(s[i])
    /\ (Len(s) > 1 => s[1] # "0")
SemverParses(version) ==
    LET parts == Split(version, ".")
    IN  Len(parts) = 3 /\ \A i \in 1..3 : IsNumeral(parts[i])

\* tag_format.format(name=..., version=...): a template is a sequence of
\* characters and of the two replacement fields
RECURSIVE format(_, _, _)
format(tag_format, name, version) ==
    IF tag_format = <<>> THEN <<>>
    ELSE (CASE tag_format[1] = "{name}" -> name
            [] tag_format[1] = "{version}" -> version
            [] OTHER -> <<tag_format[1]>>)
         \o format(Tail(tag_format), name, version)

\* _get_tag_format: ok = FALSE stands for the ValueError of a missing template
get_tag_format(package_info) ==
    [ok |-> package_info.pyproject_data.tag_format # <<>>,
     v |-> package_info.pyproject_data.tag_format]

\* the tag name tag_exists and create_tag compute for a version
TagName(package_info, version) ==
    format(package_info.pyproject_data.tag_format,
           package_info.pyproject_data.name, version)

----------------------------------------------------------------------------
(* Commit classification *)

\* re.match(r"^(\w+)(?:\(|\[)?[^\)\]]*(?:\)|\])?:", first_line): group 1, or
\* the empty text when there is no match.  \w+ takes the longest run of word
\* characters; between it and the colon every character but the last must
\* differ from ')' and ']' (an opening bracket is matched by [^\)\]]* as well)
HeaderType(first_line) ==
    LET n == Len(first_line)
        w == CHOOSE k \in 0..n :
                /\ \A i \in 1..k : IsWord(first_line[i])
                /\ (k < n => ~IsWord(first_line[k + 1]))
        ColonAt(c) ==
            /\ first_line[c] = ":"
            /\ \A i \in (w + 1)..(c - 2) : first_line[i] \notin {")", "]"}
    IN  IF w >= 1 /\ \E c \in (w + 1)..n : ColonAt(c)
        THEN SubSeq(first_line, 1, w) ELSE <<>>

BreakingChange ==
    <<"b", "r", "e", "a", "k", "i", "n", "g", " ", "c", "h", "a", "n", "g", "e">>
TypeFeat == <<"f", "e", "a", "t">>
TypeFix == <<"f", "i", "x">>

\* _parse_conventional_commit looking for "breaking change" in the first line
\* only
parse_conventional_commit_subject_only(commit_message) ==
    LET message == Lower(Strip(commit_message))
        first_line == Split(message, NL)[1]
        header == HeaderType(first_line)
    IN  IF Contains(first_line, BreakingChange) THEN "major"
        ELSE IF header = <<>>
             THEN (IF message # <<>> THEN "patch" ELSE None)
        ELSE IF header = TypeFeat THEN "minor"
        ELSE "patch"

\* _parse_conventional_commit with the type table of bump.py, where a type
\* that is not listed has no mapping
parse_conventional_commit_listed_types(commit_message) ==
    LET message == Lower(Strip(commit_message))
        first_line == Split(message, NL)[1]
        header == HeaderType(first_line)
    IN  IF Contains(message, BreakingChange) THEN "major"
        ELSE IF header = <<>>
             THEN (IF message # <<>> THEN "patch" ELSE None)
        ELSE IF header = TypeFeat THEN "minor"
        ELSE IF header \in {TypeFix, <<"d", "o", "c", "s">>,
                            <<"c", "h", "o", "r", "e">>} THEN "patch"
        ELSE None

\* _parse_conventional_commit
parse_conventional_commit(commit_message) ==
    LET message == Lower(Strip(commit_message))
        first_line == Split(message, NL)[1]
        header == HeaderType(first_line)
        commit_type == Lower(header)
    IN  IF Contains(message, BreakingChange) THEN "major"
        ELSE IF header = <<>>
             THEN (IF message # <<>> THEN "patch" ELSE None)
        ELSE IF commit_type = TypeFeat THEN "minor"
        ELSE IF commit_type = TypeFix THEN "patch"
        ELSE "patch"

bump_priority(b) ==
    CASE b = "major" -> 3
      [] b = "minor" -> 2
      [] b = "patch" -> 1
      [] OTHER -> 0

\* the loop keeping the bump of the last classified commit, whatever its
\* priority
RECURSIVE highest_bump_latest(_, _)
highest_bump_latest(package_commits, highest) ==
    IF package_commits = <<>> THEN highest
    ELSE LET commit_bump == parse_conventional_commit(package_commits[1])
         IN  highest_bump_latest(Tail(package_commits),
                 IF commit_bump # None THEN commit_bump ELSE highest)

\* the for loop of determine_package_bump over the commits, highest so far first
RECURSIVE highest_bump(_, _)
highest_bump(package_commits, highest) ==
    IF package_commits = <<>> THEN highest
    ELSE LET commit_bump == parse_conventional_commit(package_commits[1])
         IN  highest_bump(Tail(package_commits),
                 IF commit_bump # None
                    /\ bump_priority(commit_bump) > bump_priority(highest)
                 THEN commit_bump ELSE highest)

----------------------------------------------------------------------------
(* The repository and the command line the model starts from *)

Feluda == "feluda"
OperatorA == "operators/a"
\* package_roots of _discover_packages: "feluda", then the operators found
PackageRoots == <<Feluda, OperatorA>>
Roots == {PackageRoots[i] : i \in 1..Len(PackageRoots)}

Version100 == <<"1", ".", "0", ".", "0">>
VersionBad == <<"1", ".", "x", ".", "0">>
DefaultVersion == <<"0", ".", "0", ".", "0">>
NameFeluda == <<"f", "e", "l", "u", "d", "a">>
NameA == <<"a">>
\* "v{version}", "{name}-v{version}" and a template without {version}
FormatV == <<"v", "{version}">>
FormatNameV == <<"{name}", "-", "v", "{version}">>
FormatFixed == <<"r", "e", "l">>

\* "chore: init", "fix: b" and "feat: m\n\nBREAKING CHANGE: m"
MsgChore == <<"c", "h", "o", "r", "e", ":", " ", "i", "n", "i", "t">>
MsgFix == <<"f", "i", "x", ":", " ", "b">>
MsgBreakingBody ==
    <<"f", "e", "a", "t", ":", " ", "m", NL, NL, "B", "R", "E", "A", "K", "I", "N",
      "G", " ", "C", "H", "A", "N", "G", "E", ":", " ", "m">>

RootCommit == [msg |-> MsgChore, touches |-> Roots]
CommitChoices ==
    {[msg |-> MsgFix, touches |-> {Feluda}],
     [msg |-> MsgBreakingBody, touches |-> Roots]}

RECURSIVE SeqsUpTo(_, _)
SeqsUpTo(S, n) ==
    IF n = 0 THEN {<<>>}
    ELSE LET shorter == SeqsUpTo(S, n - 1)
         IN  shorter \cup {Append(q, x) : q \in shorter, x \in S}
Histories == {<<RootCommit>> \o q : q \in SeqsUpTo(CommitChoices, MaxCommits)}

FeludaManifests ==
    {[name |-> NameFeluda, version |-> Version100, tag_format |-> FormatV],
     [name |-> NameFeluda, version |-> Version100, tag_format |-> FormatNameV],
     [name |-> NameFeluda, version |-> Version100, tag_format |-> FormatFixed],
     [name |-> NameFeluda, version |-> VersionBad, tag_format |-> FormatV]}
OperatorManifests ==
    {[name |-> NameA, version |-> Version100, tag_format |-> FormatV]}
\* what a manifest file holds after a write that failed midway
EmptyManifest == [name |-> <<>>, version |-> <<>>, tag_format |-> <<>>]

InitialTags ==
    {{},
     {<<"v", "1", ".", "0", ".", "1">>, <<"v", "1", ".", "0", ".", "2">>},
     {FormatFixed}}

\* no method is being called on its own
NoCall == [method |-> None, args |-> <<>>, done |-> FALSE, result |-> None]

----------------------------------------------------------------------------
(* State *)

VARIABLES
    history,            \* the commits, oldest first; a revision is a position
    tags,               \* the tag names of the repository
    pyproject,          \* the manifest file of each package root
    argv,               \* the arguments of the script
    runs,               \* invocations of the script so far
    pc,                 \* where the running script is
    packages,           \* self.packages
    idx,                \* position of the for loop in self.packages
    bump_type,          \* locals of update_package_versions
    current_version,
    new_version,
    updated_versions,
    exit_code,          \* -1 while the script has not exited
    outcome,            \* per package: Idle, Skipped, Failed or Done
    faults,             \* failures of external steps so far
    tags0,              \* the tag names when the current run started
    pyproject0,         \* the manifest files when the current run started
    faults0,            \* the failures so far when the current run started
    call                \* a method called on its own: method, args, done, result

vars == <<history, tags, pyproject, argv, runs, pc, packages, idx, bump_type,
          current_version, new_version, updated_versions, exit_code, outcome,
          faults, tags0, pyproject0, faults0, call>>

prev_commit == argv[1]
current_commit == argv[2]

Init ==
    /\ history \in Histories
    /\ tags \in InitialTags
    /\ pyproject \in {(Feluda :> f) @@ (OperatorA :> o) :
                        f \in FeludaManifests, o \in OperatorManifests}
    /\ argv \in {<<p, Len(history)>> : p \in 1..Len(history)} \cup {<<1>>}
    /\ (Len(argv) # 2 => /\ history = <<RootCommit>>
                         /\ tags = {}
                         /\ pyproject[Feluda].tag_format = FormatV
                         /\ pyproject[OperatorA].tag_format = FormatV)
    /\ runs = 0
    /\ pc = "start"
    /\ packages = <<>>
    /\ idx = 1
    /\ bump_type = None
    /\ current_version = <<>>
    /\ new_version = <<>>
    /\ updated_versions = <<>>
    /\ exit_code = -1
    /\ outcome = [r \in Roots |-> "Idle"]
    /\ faults = 0
    /\ tags0 = tags
    /\ pyproject0 = pyproject
    /\ faults0 = 0
    /\ call = NoCall

----------------------------------------------------------------------------
(* git log and discovery *)

\* %s of --pretty=format: the lines before the first blank line, joined
Subject(msg) ==
    LET lines == Split(msg, NL)
        blank == {i \in 1..Len(lines) : Strip(lines[i]) = <<>>}
        last == IF blank = {} THEN Len(lines)
                ELSE (CHOOSE i \in blank : \A j \in blank : i <= j) - 1
    IN  Join(SubSeq(lines, 1, last), <<" ">>)

\* the subjects git log prints for lo..hi and a path, newest first
RECURSIVE LogSubjects(_, _, _)
LogSubjects(lo, hi, package_path) ==
    IF hi < lo THEN <<>>
    ELSE (IF package_path \in history[hi].touches
          THEN <<Subject(history[hi].msg)>> ELSE <<>>)
         \o LogSubjects(lo, hi - 1, package_path)

\* get_package_commits returning the log although git has reported a failure
get_package_commits_unchecked(package_path, log_fails) ==
    IF prev_commit = 1 THEN <<>>
    ELSE SplitLines(Join(LogSubjects(prev_commit, current_commit, package_path),
                         <<NL>>))

\* get_package_commits: the range is prev_commit^..current_commit, so the log
\* starts at prev_commit itself, and git fails (CalledProcessError, answered
\* with []) when prev_commit is the root commit, which has no parent
get_package_commits(package_path, log_fails) ==
    IF log_fails \/ prev_commit = 1 THEN <<>>
    ELSE SplitLines(Join(LogSubjects(prev_commit, current_commit, package_path),
                         <<NL>>))

\* determine_package_bump once the commits are known
bump_of_commits(package_commits) ==
    IF package_commits = <<>> THEN None
    ELSE highest_bump(package_commits, None)

determine_package_bump(package_path, log_fails) ==
    bump_of_commits(get_package_commits(package_path, log_fails))

validate_pyproject(pyproject_data) ==
    /\ pyproject_data.name # <<>>
    /\ pyproject_data.version # <<>>
    /\ pyproject_data.tag_format # <<>>

\* _discover_packages giving up at the first manifest that fails validation
discover_packages_aborts ==
    IF \A q \in Roots : validate_pyproject(pyproject[q])
    THEN [r \in Roots |->
            [package_path |-> r,
             pyproject_data |-> pyproject[r],
             current_version |-> pyproject[r].version]]
    ELSE <<>>

\* _discover_packages as __init__ uses it: a manifest that fails validation is
\* left out, and when none is left the ValueError leaves self.packages = {}
discover_packages ==
    [r \in {q \in Roots : validate_pyproject(pyproject[q])} |->
        [package_path |-> r,
         pyproject_data |-> pyproject[r],
         current_version |-> IF pyproject[r].version = <<>> THEN DefaultVersion
                             ELSE pyproject[r].version]]

----------------------------------------------------------------------------
(* The script *)

IsDiscovered(r) == r \in DOMAIN packages
\* the keys of self.packages in insertion order
package_names == SelectSeq(PackageRoots, IsDiscovered)
package_name == package_names[idx]
package_info == packages[package_name]

\* where the for loop goes after the package at position idx
AfterPackage(names, i) == IF i < Len(names) THEN "determine" ELSE "report"

PatchOf(version) == ParseInt(Split(version, ".")[3]).val
\* patch bumps the while loop has made on the candidate version
Retries == PatchOf(new_version) - PatchOf(bump_version(current_version, bump_type).v)

\* tag_exists comparing the bare version, not the formatted tag name, with the
\* tag list
tag_exists_unformatted(info, version) == version \in tags

\* what tag_exists returns when the tag list can be read
tag_exists(info, version) == TagName(info, version) \in tags

\* the loop body bumping the minor instead of the patch component
retry_version_minor(version) == bump_version(version, "minor").v

\* the body of the while loop: new_version = self._bump_version(new_version, "patch")
retry_version(version) == bump_version(version, "patch").v

\* the except clause leaving the for loop instead of going on with the next
\* package
Failed_Aborts ==
    /\ outcome' = [outcome EXCEPT ![package_name] = "Failed"]
    /\ idx' = idx + 1
    /\ pc' = "report"

\* the except clause of the loop body: the package is given up
Failed ==
    /\ outcome' = [outcome EXCEPT ![package_name] = "Failed"]
    /\ idx' = idx + 1
    /\ pc' = AfterPackage(package_names, idx)

\* an external step may fail while the budget of failures lasts
MayFail(fails) ==
    /\ fails => faults < MaxFaults
    /\ faults' = IF fails THEN faults + 1 ELSE faults

\* too few or too many arguments: usage message, exit code 1
UsageError ==
    /\ pc \in {"start", "exited"}
    /\ runs < MaxRuns
    /\ Len(argv) # 2
    /\ runs' = runs + 1
    /\ exit_code' = 1
    /\ pc' = "exited"
    /\ UNCHANGED <<history, tags, pyproject, argv, packages, idx, bump_type,
                   current_version, new_version, updated_versions, outcome,
                   faults, tags0, pyproject0, faults0, call>>

\* the script starts: PackageVersionManager(...) discovers the packages and
\* update_package_versions begins with an empty result
Main ==
    /\ pc \in {"start", "exited"}
    /\ runs < MaxRuns
    /\ Len(argv) = 2
    /\ runs' = runs + 1
    /\ packages' = discover_packages
    /\ updated_versions' = <<>>
    /\ idx' = 1
    /\ bump_type' = None
    /\ current_version' = <<>>
    /\ new_version' = <<>>
    /\ exit_code' = -1
    /\ outcome' = [r \in Roots |-> "Idle"]
    /\ tags0' = tags
    /\ pyproject0' = pyproject
    /\ faults0' = faults
    /\ pc' = IF DOMAIN packages' = {} THEN "report" ELSE "determine"
    /\ UNCHANGED <<history, tags, pyproject, argv, faults, call>>

\* the loop body putting a package without a bump back to the default version
\* before it goes on
DeterminePackageBump_Resets ==
    /\ pc = "determine"
    /\ \E log_fails \in BOOLEAN :
        /\ MayFail(log_fails)
        /\ bump_type' = determine_package_bump(package_info.package_path, log_fails)
    /\ IF bump_type' = None
       THEN /\ outcome' = [outcome EXCEPT ![package_name] = "Skipped"]
            /\ packages' = [packages EXCEPT
                              ![package_name].current_version = DefaultVersion]
            /\ idx' = idx + 1
            /\ pc' = AfterPackage(package_names, idx)
       ELSE /\ pc' = "bump"
            /\ UNCHANGED <<outcome, idx, packages>>
    /\ UNCHANGED <<history, tags, pyproject, argv, runs,
                   current_version, new_version, updated_versions, exit_code,
                   tags0, pyproject0, faults0, call>>

\* bump_type = self.determine_package_bump(...); continue when there is none
DeterminePackageBump ==
    /\ pc = "determine"
    /\ \E log_fails \in BOOLEAN :
        /\ MayFail(log_fails)
        /\ bump_type' = determine_package_bump(package_info.package_path, log_fails)
    /\ IF bump_type' = None
       THEN /\ outcome' = [outcome EXCEPT ![package_name] = "Skipped"]
            /\ idx' = idx + 1
            /\ pc' = AfterPackage(package_names, idx)
       ELSE /\ pc' = "bump"
            /\ UNCHANGED <<outcome, idx>>
    /\ UNCHANGED <<history, tags, pyproject, argv, runs, packages,
                   current_version, new_version, updated_versions, exit_code,
                   tags0, pyproject0, faults0, call>>

\* current_version = package_info.get(...); new_version = self._bump_version(...)
BumpVersion ==
    /\ pc = "bump"
    /\ current_version' = package_info.current_version
    /\ LET bumped == bump_version(current_version', bump_type)
       IN  IF bumped.ok
           THEN /\ new_version' = bumped.v
                /\ pc' = "tag_exists"
                /\ UNCHANGED <<outcome, idx>>
           ELSE /\ Failed
                /\ UNCHANGED new_version
    /\ UNCHANGED <<history, tags, pyproject, argv, runs, packages, bump_type,
                   updated_versions, exit_code, faults, tags0, pyproject0, faults0, call>>

\* the loop storing the candidate version in package_info before it tests the
\* tag
TagExists_StoresCandidate ==
    /\ pc = "tag_exists"
    /\ packages' = [packages EXCEPT ![package_name].current_version = new_version]
    /\ \E list_fails \in BOOLEAN :
        /\ MayFail(list_fails)
        /\ IF ~get_tag_format(package_info).ok \/ ~SemverParses(new_version)
           THEN /\ ~list_fails
                /\ Failed
                /\ UNCHANGED new_version
           ELSE IF list_fails
           THEN /\ Failed
                /\ UNCHANGED new_version
           ELSE IF tag_exists(package_info, new_version)
           THEN /\ Retries < MaxRetries
                /\ new_version' = retry_version(new_version)
                /\ UNCHANGED <<pc, outcome, idx>>
           ELSE /\ pc' = "write"
                /\ UNCHANGED <<new_version, outcome, idx>>
    /\ UNCHANGED <<history, tags, pyproject, argv, runs, bump_type,
                   current_version, updated_versions, exit_code, tags0, pyproject0, faults0, call>>

\* one test of `while self.tag_exists(package_info, new_version)` and, when
\* the tag exists, the patch bump of the loop body
TagExists ==
    /\ pc = "tag_exists"
    /\ \E list_fails \in BOOLEAN :
        /\ MayFail(list_fails)
        /\ IF ~get_tag_format(package_info).ok \/ ~SemverParses(new_version)
           THEN /\ ~list_fails
                /\ Failed
                /\ UNCHANGED new_version
           ELSE IF list_fails
           THEN /\ Failed
                /\ UNCHANGED new_version
           ELSE IF tag_exists(package_info, new_version)
           THEN /\ Retries < MaxRetries
                /\ new_version' = retry_version(new_version)
                /\ UNCHANGED <<pc, outcome, idx>>
           ELSE /\ pc' = "write"
                /\ UNCHANGED <<new_version, outcome, idx>>
    /\ UNCHANGED <<history, tags, pyproject, argv, runs, packages, bump_type,
                   current_version, updated_versions, exit_code, tags0, pyproject0, faults0, call>>

\* the loop body recording the result straight after the manifest is written,
\* without the call of create_tag
WriteManifest_SkipsTag ==
    /\ pc = "write"
    /\ packages' = [packages EXCEPT
                      ![package_name].current_version = new_version,
                      ![package_name].pyproject_data.version = new_version]
    /\ pyproject' = [pyproject EXCEPT ![package_name] =
                       packages'[package_name].pyproject_data]
    /\ pc' = "record"
    /\ UNCHANGED <<history, tags, argv, runs, bump_type, current_version,
                   new_version, updated_versions, exit_code, outcome, idx,
                   faults, tags0, pyproject0, faults0, call>>

\* the new version stored in the package_info of every package, as if the
\* packages shared one record
WriteManifest_Shared ==
    /\ pc = "write"
    /\ packages' = [r \in DOMAIN packages |->
                      [packages[r] EXCEPT !.current_version = new_version,
                                          !.pyproject_data.version = new_version]]
    /\ pyproject' = [pyproject EXCEPT ![package_name] =
                       packages'[package_name].pyproject_data]
    /\ pc' = "create_tag"
    /\ UNCHANGED <<history, tags, argv, runs, bump_type, current_version,
                   new_version, updated_versions, exit_code, outcome, idx,
                   faults, tags0, pyproject0, faults0, call>>

\* the new version is stored in package_info and the manifest is rewritten;
\* a failing open() leaves the file as it was, a failing dump leaves it cut
WriteManifest ==
    /\ pc = "write"
    /\ packages' = [packages EXCEPT
                      ![package_name].current_version = new_version,
                      ![package_name].pyproject_data.version = new_version]
    /\ \E written \in {"written", "open_failed", "dump_failed"} :
        /\ MayFail(written # "written")
        /\ CASE written = "written" ->
                  /\ pyproject' = [pyproject EXCEPT ![package_name] =
                                     packages'[package_name].pyproject_data]
                  /\ pc' = "create_tag"
                  /\ UNCHANGED <<outcome, idx>>
             [] written = "open_failed" ->
                  /\ Failed
                  /\ UNCHANGED pyproject
             [] written = "dump_failed" ->
                  /\ pyproject' = [pyproject EXCEPT ![package_name] = EmptyManifest]
                  /\ Failed
    /\ UNCHANGED <<history, tags, argv, runs, bump_type, current_version,
                   new_version, updated_versions, exit_code, tags0, pyproject0, faults0, call>>

\* create_tag treating a tag name that already exists as an error
CreateTag_Rejects ==
    /\ pc = "create_tag"
    /\ LET tag_name == TagName(package_info, new_version)
       IN  \E done \in {"created", "list_failed", "tag_failed"} :
            /\ MayFail(done # "created")
            /\ CASE done = "list_failed" ->
                      /\ Failed
                      /\ UNCHANGED tags
                 [] done = "tag_failed" ->
                      /\ tag_name \notin tags
                      /\ pc' = "record"
                      /\ UNCHANGED <<tags, outcome, idx>>
                 [] done = "created" ->
                      IF tag_name \in tags
                      THEN /\ Failed
                           /\ UNCHANGED tags
                      ELSE /\ tags' = tags \cup {tag_name}
                           /\ pc' = "record"
                           /\ UNCHANGED <<outcome, idx>>
    /\ UNCHANGED <<history, pyproject, argv, runs, packages, bump_type,
                   current_version, new_version, updated_versions, exit_code,
                   tags0, pyproject0, faults0, call>>

\* create_tag: the tag list is read (a failure propagates), an existing tag is
\* left alone, and a failure of `git tag` itself is printed and swallowed
CreateTag ==
    /\ pc = "create_tag"
    /\ LET tag_name == TagName(package_info, new_version)
       IN  \E done \in {"created", "list_failed", "tag_failed"} :
            /\ MayFail(done # "created")
            /\ CASE done = "list_failed" ->
                      /\ Failed
                      /\ UNCHANGED tags
                 [] done = "tag_failed" ->
                      /\ tag_name \notin tags
                      /\ pc' = "record"
                      /\ UNCHANGED <<tags, outcome, idx>>
                 [] done = "created" ->
                      /\ tags' = tags \cup {tag_name}
                      /\ pc' = "record"
                      /\ UNCHANGED <<outcome, idx>>
    /\ UNCHANGED <<history, pyproject, argv, runs, packages, bump_type,
                   current_version, new_version, updated_versions, exit_code,
                   tags0, pyproject0, faults0, call>>

\* updated_versions[package_name] = {...}
RecordResult ==
    /\ pc = "record"
    /\ updated_versions' =
          (package_name :> [old_version |-> current_version,
                            new_version |-> new_version,
                            bump_type |-> bump_type]) @@ updated_versions
    /\ outcome' = [outcome EXCEPT ![package_name] = "Done"]
    /\ idx' = idx + 1
    /\ pc' = AfterPackage(package_names, idx)
    /\ UNCHANGED <<history, tags, pyproject, argv, runs, packages, bump_type,
                   current_version, new_version, exit_code, faults, tags0, pyproject0, faults0, call>>

\* update_package_versions has returned: the summary is printed and the script
\* ends without calling sys.exit
Exit ==
    /\ pc = "report"
    /\ exit_code' = 0
    /\ pc' = "exited"
    /\ UNCHANGED <<history, tags, pyproject, argv, runs, packages, idx,
                   bump_type, current_version, new_version, updated_versions,
                   outcome, faults, tags0, pyproject0, faults0, call>>

Next ==
    \/ UsageError
    \/ Main
    \/ DeterminePackageBump
    \/ BumpVersion
    \/ TagExists
    \/ WriteManifest
    \/ CreateTag
    \/ RecordResult
    \/ Exit

Spec == Init /\ [][Next]_vars

----------------------------------------------------------------------------
(* Runs beside another writer of tags *)

\* between the tag test of the loop and the tag list read by create_tag,
\* another process creates the tag of the candidate version
ExternalTag ==
    /\ pc = "create_tag"
    /\ TagName(package_info, new_version) \notin tags
    /\ tags' = tags \cup {TagName(package_info, new_version)}
    /\ UNCHANGED <<history, pyproject, argv, runs, pc, packages, idx, bump_type,
                   current_version, new_version, updated_versions, exit_code,
                   outcome, faults, tags0, pyproject0, faults0, call>>

NextRace ==
    \/ Next
    \/ ExternalTag

SpecRace == Init /\ [][NextRace]_vars

----------------------------------------------------------------------------
(* Runs over repositories whose manifests lack a field *)

\* a manifest and the manifests that lack one of the fields _validate_pyproject
\* asks for (a missing field reads as the empty text)
WithMissingField(manifest) ==
    {manifest,
     [manifest EXCEPT !.name = <<>>],
     [manifest EXCEPT !.version = <<>>],
     [manifest EXCEPT !.tag_format = <<>>]}

InitDiscovery ==
    /\ history \in {<<RootCommit, c>> : c \in CommitChoices}
    /\ tags = {}
    /\ pyproject \in
          {(Feluda :> f) @@ (OperatorA :> o) :
              f \in WithMissingField([name |-> NameFeluda, version |-> Version100,
                                      tag_format |-> FormatV]),
              o \in UNION {WithMissingField(m) : m \in OperatorManifests}}
    /\ argv \in {<<2, 2>>, <<1>>}
    /\ runs = 0
    /\ pc = "start"
    /\ packages = <<>>
    /\ idx = 1
    /\ bump_type = None
    /\ current_version = <<>>
    /\ new_version = <<>>
    /\ updated_versions = <<>>
    /\ exit_code = -1
    /\ outcome = [r \in Roots |-> "Idle"]
    /\ faults = 0
    /\ tags0 = tags
    /\ pyproject0 = pyproject
    /\ faults0 = 0
    /\ call = NoCall

SpecDiscovery == InitDiscovery /\ [][Next]_vars

----------------------------------------------------------------------------
(* Methods called on their own: the arguments the calls are made with *)

\* longest commit list a call of determine_package_bump is given
MaxLog == 3
\* largest component of the versions a call of _bump_version is given
MaxComponent == 10

\* "feat: a"
MsgFeat == <<"f", "e", "a", "t", ":", " ", "a">>
\* "feat(api): a"
MsgFeatScope == <<"f", "e", "a", "t", "(", "a", "p", "i", ")", ":", " ", "a">>
\* "fix[ui]: a"
MsgFixScope == <<"f", "i", "x", "[", "u", "i", "]", ":", " ", "a">>
\* "docs: a"
MsgDocs == <<"d", "o", "c", "s", ":", " ", "a">>
\* "wip: a"
MsgUnknownType == <<"w", "i", "p", ":", " ", "a">>
\* "FEAT: A"
MsgUpperFeat == <<"F", "E", "A", "T", ":", " ", "A">>
\* " feat: a\n"
MsgPadded == <<" ", "f", "e", "a", "t", ":", " ", "a", NL>>
\* "random text"
MsgRandom == <<"r", "a", "n", "d", "o", "m", " ", "t", "e", "x", "t">>
\* "(x): y"
MsgNoWord == <<"(", "x", ")", ":", " ", "y">>
\* ""
MsgEmpty == <<>>
\* " \n"
MsgBlank == <<" ", NL>>
\* "BREAKING CHANGE: c"
MsgBreakingSubject ==
    <<"B", "R", "E", "A", "K", "I", "N", "G", " ", "C", "H", "A", "N", "G",
      "E", ":", " ", "c">>
\* "fix: a Breaking Change"
MsgBreakingMixed ==
    <<"f", "i", "x", ":", " ", "a", " ", "B", "r", "e", "a", "k", "i", "n",
      "g", " ", "C", "h", "a", "n", "g", "e">>
\* "docs: a\nbreaking change"
MsgBreakingLower ==
    <<"d", "o", "c", "s", ":", " ", "a", NL, "b", "r", "e", "a", "k", "i",
      "n", "g", " ", "c", "h", "a", "n", "g", "e">>
\* "a breaking change"
MsgBreakingUnmatched ==
    <<"a", " ", "b", "r", "e", "a", "k", "i", "n", "g", " ", "c", "h", "a",
      "n", "g", "e">>
\* "fix: breaking  change"
MsgBrokenWord ==
    <<"f", "i", "x", ":", " ", "b", "r", "e", "a", "k", "i", "n", "g", " ",
      " ", "c", "h", "a", "n", "g", "e">>

Messages ==
    {MsgChore, MsgFix, MsgBreakingBody, MsgFeat, MsgFeatScope, MsgFixScope, MsgDocs,
     MsgUnknownType, MsgUpperFeat, MsgPadded, MsgRandom,
     MsgNoWord, MsgEmpty, MsgBlank, MsgBreakingSubject,
     MsgBreakingMixed, MsgBreakingLower, MsgBreakingUnmatched, MsgBrokenWord}

\* the commit lists determine_package_bump is given: lines of a git log
LogLines == {MsgFix, MsgFeat, MsgBreakingSubject, MsgRandom, MsgEmpty}
CommitLists == SeqsUpTo(LogLines, MaxLog)

\* version texts of three non-negative integers, and texts that are not
WellFormedVersions ==
    {FormatVersion(a, b, c) : a \in {0, 1, MaxComponent},
                              b \in {0, MaxComponent - 1},
                              c \in {0, MaxComponent - 1, MaxComponent}}
MalformedVersions ==
    {<<"1", ".", "0">>,
     <<"1", ".", "0", ".", "0", ".", "0">>,
     VersionBad,
     <<"-", "1", ".", "0", ".", "0">>,
     <<"1", ".", ".", "0">>,
     <<>>}
BumpTypes == {"major", "minor", "patch", None, "other"}

\* the calls made
Calls ==
    {[method |-> "_parse_conventional_commit", args |-> <<m>>,
      done |-> FALSE, result |-> None] : m \in Messages}
    \cup {[method |-> "determine_package_bump", args |-> <<l>>,
           done |-> FALSE, result |-> None] : l \in CommitLists}
    \cup {[method |-> "_bump_version", args |-> <<v, k>>,
           done |-> FALSE, result |-> None] :
             v \in WellFormedVersions \cup MalformedVersions, k \in BumpTypes}

InitCalls ==
    /\ call \in Calls
    /\ history = <<RootCommit>>
    /\ tags = {}
    /\ pyproject = [r \in Roots |-> EmptyManifest]
    /\ argv = <<1, 1>>
    /\ runs = 0
    /\ pc = "call"
    /\ packages = <<>>
    /\ idx = 1
    /\ bump_type = None
    /\ current_version = <<>>
    /\ new_version = <<>>
    /\ updated_versions = <<>>
    /\ exit_code = -1
    /\ outcome = [r \in Roots |-> "Idle"]
    /\ faults = 0
    /\ tags0 = tags
    /\ pyproject0 = pyproject
    /\ faults0 = 0

\* the method returns (or raises: result.ok = FALSE) and nothing else changes
Returns(result) ==
    /\ ~call.done
    /\ call' = [call EXCEPT !.done = TRUE, !.result = result]
    /\ UNCHANGED <<history, tags, pyproject, argv, runs, pc, packages, idx,
                   bump_type, current_version, new_version, updated_versions,
                   exit_code, outcome, faults, tags0, pyproject0, faults0>>

ParseConventionalCommit ==
    /\ call.method = "_parse_conventional_commit"
    /\ Returns(parse_conventional_commit(call.args[1]))

\* determine_package_bump when get_package_commits has returned call.args[1]
DetermineBump ==
    /\ call.method = "determine_package_bump"
    /\ Returns(bump_of_commits(call.args[1]))

BumpVersionCall ==
    /\ call.method = "_bump_version"
    /\ Returns(bump_version(call.args[1], call.args[2]))

NextCalls ==
    \/ ParseConventionalCommit
    \/ DetermineBump
    \/ BumpVersionCall

SpecCalls == InitCalls /\ [][NextCalls]_vars

----------------------------------------------------------------------------
(* Helpers of the properties *)

\* n patch bumps of a version
RECURSIVE PatchBumped(_, _)
PatchBumped(version, n) ==
    IF n = 0 THEN version
    ELSE PatchBumped(bump_version(version, "patch").v, n - 1)

\* the version the while loop starts from
Candidate == bump_version(current_version, bump_type).v

HasVersionField(tag_format) == \E i \in 1..Len(tag_format) : tag_format[i] = "{version}"

\* the tag a recorded result stands for
ResultTag(p) == TagName(packages[p], updated_versions[p].new_version)

RunOver == pc \in {"report", "exited"} /\ Len(argv) = 2 /\ runs >= 1
\* update_package_versions has just returned
Returned == pc = "report"

\* get_package_commits of bump.py: the range is prev_commit..current_commit,
\* which leaves the commit at prev_commit out
bump_get_package_commits(package_path) ==
    SplitLines(Join(LogSubjects(prev_commit + 1, current_commit, package_path),
                    <<NL>>))

\* the commits after prev_commit up to current_commit that touch a path
InRange(package_path) ==
    {i \in (prev_commit + 1)..current_commit : package_path \in history[i].touches}

\* a discovered package as the run found it
InfoAtStart(p) ==
    [package_path |-> p,
     pyproject_data |-> pyproject0[p],
     current_version |-> pyproject0[p].version]

----------------------------------------------------------------------------
(* Tag resolution *)

\* C1: when the while loop of update_package_versions is left, the resolved
\* version is the candidate patch-bumped as often as the loop retried, its tag
\* does not exist, and the tag of every earlier version of that sequence does:
\* the candidate itself is returned when its tag is free, no version with a
\* free tag is skipped and no version with an existing tag is returned.
C1_TagResolution ==
    pc = "write" =>
        /\ Retries \in 0..MaxRetries
        /\ new_version = PatchBumped(Candidate, Retries)
        /\ TagName(package_info, new_version) \notin tags
        /\ \A j \in 0..(Retries - 1) :
              TagName(package_info, PatchBumped(Candidate, j)) \in tags

\* a resolution that met two taken tags in a row
C1_Witness == pc = "write" /\ Retries = 2

\* C2 (as claimed): idempotence across runs.  A run of the script that
\* follows a completed run with the same revision range, no new commits and
\* the first run's tags present, skips every package: its result is empty, no
\* manifest is written and no tag is created.
C2_Idempotent ==
    (RunOver /\ runs >= 2 /\ faults = 0) =>
        /\ DOMAIN updated_versions = {}
        /\ tags = tags0
        /\ pyproject = pyproject0

\* C3 (as claimed): forward progress.  A retry of the tag resolution tests a
\* tag name the loop has not yet found taken, so an existing tag for the
\* candidate cannot keep the package unreleased.  A retry that tests a name
\* already found taken repeats the same test for ever.
C3_ForwardProgress ==
    pc = "tag_exists" =>
        \A j \in 0..(Retries - 1) :
            TagName(package_info, PatchBumped(Candidate, j))
                # TagName(package_info, new_version)

\* C4 (as claimed): the retry loop is bounded.  A loop that ends makes at most
\* one retry per tag of the repository; more than that is a loop no tag
\* namespace of this size accounts for.
C4_BoundedRetries ==
    pc = "tag_exists" => Retries <= Cardinality(tags)

----------------------------------------------------------------------------
(* End-to-end releases *)

\* C6 (as claimed): a package at version v whose commits after the previous
\* revision up to the current one resolve to a bump kind k, and whose tag for
\* bump(v, k) neither existed when the run started nor was created for
\* another package, has in a finished run without failures exactly the entry
\* {old_version: v, new_version: bump(v, k), bump_type: k}, and that tag
\* exists.
C6_ReleaseWithoutCollision ==
    (RunOver /\ faults = 0) =>
        \A p \in DOMAIN packages :
            LET v == pyproject0[p].version
                k == highest_bump(bump_get_package_commits(p), None)
                bumped == bump_version(v, k)
                tag_name == TagName(InfoAtStart(p), bumped.v)
            IN  (/\ bump_get_package_commits(p) # <<>>
                 /\ k # None
                 /\ bumped.ok
                 /\ tag_name \notin tags0
                 /\ \A q \in DOMAIN updated_versions \ {p} : ResultTag(q) # tag_name)
                => /\ p \in DOMAIN updated_versions
                   /\ updated_versions[p] = [old_version |-> v,
                                             new_version |-> bumped.v,
                                             bump_type |-> k]
                   /\ tag_name \in tags

\* C7 (as claimed): when a commit after the previous revision up to the
\* current one touches the package and has "BREAKING CHANGE" anywhere in its
\* message, the body included, the bump determined for the package is major.
C7_BreakingBodyIsMajor ==
    pc = "bump" =>
        ((\E i \in InRange(package_info.package_path) :
             Contains(Lower(Strip(history[i].msg)), BreakingChange))
         => bump_type = "major")

\* C8 (as claimed): the commits a bump is determined from are those touching
\* the package after the previous revision (exclusive) up to the current
\* revision (inclusive), and no package is updated when the two revisions are
\* the same.
C8_ExclusiveStartRange ==
    /\ pc = "bump" =>
          get_package_commits(package_info.package_path, FALSE)
              = bump_get_package_commits(package_info.package_path)
    /\ (Len(argv) = 2 /\ prev_commit = current_commit) =>
          DOMAIN updated_versions = {}

----------------------------------------------------------------------------
(* Failures *)

\* the packages of the run whose processing ended in Failed
FailedPackages == {p \in DOMAIN packages : outcome[p] = "Failed"}

\* the first version of the sequence candidate, patch-bump(candidate), ...
\* whose tag is not among tag_names; <<>> when the search finds none
RECURSIVE NextAvailable(_, _, _, _)
NextAvailable(info, version, tag_names, n) ==
    IF TagName(info, version) \notin tag_names THEN version
    ELSE IF n = 0 THEN <<>>
    ELSE NextAvailable(info, bump_version(version, "patch").v, tag_names, n - 1)

\* what the loop body of update_package_versions does for package p when no
\* external step fails and the tags are tag_names
Alone(p, tag_names) ==
    LET info == InfoAtStart(p)
        k == determine_package_bump(p, FALSE)
        bumped == bump_version(info.current_version, k)
        resolved == NextAvailable(info, bumped.v, tag_names, MaxRetries)
    IN  IF k = None
        THEN [outcome |-> "Skipped", entry |-> <<>>, tags |-> tag_names]
        ELSE IF ~bumped.ok \/ ~get_tag_format(info).ok \/ ~SemverParses(bumped.v)
        THEN [outcome |-> "Failed", entry |-> <<>>, tags |-> tag_names]
        ELSE IF resolved = <<>>
        THEN [outcome |-> "Unresolved", entry |-> <<>>, tags |-> tag_names]
        ELSE [outcome |-> "Done",
              entry |-> [old_version |-> info.current_version,
                         new_version |-> resolved,
                         bump_type |-> k],
              tags |-> tag_names \cup {TagName(info, resolved)}]

\* the run over the packages names[i..], one after the other, without failure
\* of an external step
RECURSIVE WithoutThem(_, _, _)
WithoutThem(names, i, tag_names) ==
    IF i > Len(names) THEN [results |-> <<>>, tags |-> tag_names]
    ELSE LET first == Alone(names[i], tag_names)
             rest == WithoutThem(names, i + 1, first.tags)
         IN  [results |-> (names[i] :> first) @@ rest.results, tags |-> rest.tags]

NotFailed(p) == p \notin FailedPackages

\* Failed packages whose failure is the failure of an external step
FailedByFault ==
    {p \in FailedPackages : Alone(p, tags0).outcome # "Failed"}

\* C9: partial-failure isolation.  When the failures of external steps of a
\* run each ended the processing of a package in Failed, the run has at its end
\* processed every discovered package, and the packages that did not fail
\* have the outcome, the result entry and the tags of a run over them alone,
\* with the failing packages absent.
C9_FailureIsolation ==
    (Returned /\ Cardinality(FailedByFault) = faults - faults0) =>
        LET alone == WithoutThem(SelectSeq(package_names, NotFailed), 1, tags0)
        IN  /\ \A p \in DOMAIN packages : outcome[p] # "Idle"
            /\ \A p \in DOMAIN packages \ FailedPackages :
                  /\ outcome[p] = alone.results[p].outcome
                  /\ (outcome[p] = "Done") = (p \in DOMAIN updated_versions)
                  /\ outcome[p] = "Done" =>
                        updated_versions[p] = alone.results[p].entry
            /\ FailedPackages \cap DOMAIN updated_versions = {}
            /\ tags = alone.tags

\* a finished run in which an external step failed for the first package and
\* the second package was released
C9_Witness ==
    /\ Returned
    /\ faults - faults0 = 1
    /\ outcome[Feluda] = "Failed"
    /\ FailedByFault = {Feluda}
    /\ outcome[OperatorA] = "Done"

\* C10 (as claimed): the script exits with code 0 only when no package's
\* processing ended in Failed.
C10_ExitCodeReportsFailure ==
    (pc = "exited" /\ exit_code = 0) => \A p \in Roots : outcome[p] # "Failed"

----------------------------------------------------------------------------
(* Discovery *)

\* C11 (as claimed): when no package survives discovery the run is fatal: the
\* script does not end as a successful run without updates but exits with a
\* code other than 0.
C11_NoPackagesIsFatal ==
    (pc = "exited" /\ Len(argv) = 2 /\ DOMAIN packages = {}) => exit_code # 0

\* C19 (as claimed): a manifest with a name and a tag format but no version is
\* discovered as a package whose current version is "0.0.0".
C19_DefaultVersion ==
    (runs >= 1 /\ Len(argv) = 2) =>
        \A r \in Roots :
            (/\ pyproject0[r].name # <<>>
             /\ pyproject0[r].tag_format # <<>>
             /\ pyproject0[r].version = <<>>)
            => /\ r \in DOMAIN packages
               /\ packages[r].current_version = DefaultVersion

\* the manifest has the three fields _validate_pyproject asks for
Complete(manifest) ==
    manifest.name # <<>> /\ manifest.version # <<>> /\ manifest.tag_format # <<>>

\* C20: discovery isolation.  After discovery a candidate whose manifest lacks
\* the name or the tag format is not among the packages, and every candidate
\* whose manifest is complete is, with its path, its manifest and its version,
\* whether the incomplete candidate is scanned before or after it.
C20_DiscoveryIsolation ==
    (pc \in {"determine", "report"} /\ idx = 1) =>
        \A r \in Roots :
            /\ (pyproject0[r].name = <<>> \/ pyproject0[r].tag_format = <<>>)
                  => r \notin DOMAIN packages
            /\ Complete(pyproject0[r]) =>
                  /\ r \in DOMAIN packages
                  /\ packages[r] = [package_path |-> r,
                                    pyproject_data |-> pyproject0[r],
                                    current_version |-> pyproject0[r].version]

\* discovery has left out the first candidate, whose manifest has no name, and
\* kept the second
C20_Witness ==
    /\ pc = "determine" /\ idx = 1
    /\ pyproject0[Feluda].name = <<>>
    /\ DOMAIN packages = {OperatorA}

----------------------------------------------------------------------------
(* Bump resolution and classification *)

Kinds == {"major", "minor", "patch"}
\* the order Major > Minor > Patch
Severity(k) ==
    CASE k = "major" -> 3
      [] k = "minor" -> 2
      [] k = "patch" -> 1

\* the kinds the commits of a list classify to
Classified(package_commits) ==
    {parse_conventional_commit(package_commits[i]) :
        i \in 1..Len(package_commits)} \ {None}

\* the same commits in every order
Orderings(package_commits) ==
    LET n == Len(package_commits)
        shuffles == {f \in [1..n -> 1..n] :
                        \A a, b \in 1..n : a # b => f[a] # f[b]}
    IN  {[i \in 1..n |-> package_commits[f[i]]] : f \in shuffles}

\* C12: for a commit list with at least one classified commit,
\* determine_package_bump returns the kind of highest severity among the
\* classified commits, and returns the same for the list in any other order.
C12_MaximumSeverity ==
    (call.method = "determine_package_bump" /\ call.done
        /\ Classified(call.args[1]) # {}) =>
        /\ call.result \in Classified(call.args[1])
        /\ \A k \in Classified(call.args[1]) : Severity(k) <= Severity(call.result)
        /\ \A l \in Orderings(call.args[1]) : bump_of_commits(l) = call.result

\* resolve(["fix: b", "feat: a"]) = minor
C12_Witness ==
    /\ call.method = "determine_package_bump" /\ call.done
    /\ call.args[1] = <<MsgFix, MsgFeat>>
    /\ call.result = "minor"

\* the message has no "breaking change" and its first line does not match the
\* commit pattern
Unmatched(commit_message) ==
    LET message == Lower(Strip(commit_message))
    IN  /\ ~Contains(message, BreakingChange)
        /\ HeaderType(Split(message, NL)[1]) = <<>>

\* C13 (as claimed): determine_package_bump returns no bump exactly when the
\* commit list is empty or none of its commits yields a classification; a
\* list of messages that neither match the commit pattern nor contain
\* "breaking change" resolves to no bump.
C13_NoBumpWhenUnclassified ==
    (call.method = "determine_package_bump" /\ call.done) =>
        (call.result = None
            <=> \A i \in 1..Len(call.args[1]) : Unmatched(call.args[1][i]))

\* C14 (as claimed): a message without "breaking change" whose first line
\* does not match the commit pattern classifies as no mapping, whether it is
\* empty, blank or a text such as "random text".
C14_UnmatchedIsNone ==
    (call.method = "_parse_conventional_commit" /\ call.done
        /\ Unmatched(call.args[1])) => call.result = None

\* C15: a message whose stripped, lower-cased text contains "breaking change"
\* anywhere classifies as major, whatever its first line is.
C15_BreakingChangeIsMajor ==
    (call.method = "_parse_conventional_commit" /\ call.done
        /\ Contains(Lower(Strip(call.args[1])), BreakingChange))
        => call.result = "major"

\* "feat: m\n\nBREAKING CHANGE: m": upper case, in the body, under a feat header
C15_Witness ==
    /\ call.method = "_parse_conventional_commit" /\ call.done
    /\ call.args[1] = MsgBreakingBody
    /\ call.result = "major"

\* the length of the word a line starts with
LeadingWord(line) ==
    CHOOSE k \in 0..Len(line) :
        /\ \A i \in 1..k : IsWord(line[i])
        /\ (k < Len(line) => ~IsWord(line[k + 1]))

\* the line is a word, an optional scope in parentheses or brackets, a colon
HeaderShape(line) ==
    LET w == LeadingWord(line)
        Scope(open, close) ==
            /\ line[w + 1] = open
            /\ \E c \in (w + 2)..(Len(line) - 1) :
                  /\ line[c] = close
                  /\ line[c + 1] = ":"
                  /\ \A i \in (w + 2)..(c - 1) :
                        line[i] \notin {"(", ")", "[", "]"}
    IN  /\ w >= 1
        /\ w < Len(line)
        /\ \/ line[w + 1] = ":"
           \/ Scope("(", ")")
           \/ Scope("[", "]")

\* C16: for a message without "breaking change" whose first line has the shape
\* of a commit header, the result is minor when the type is feat and patch
\* for fix and for every other type; it is never no mapping.
C16_TypeTable ==
    LET message == Lower(Strip(call.args[1]))
        first_line == Split(message, NL)[1]
        commit_type == SubSeq(first_line, 1, LeadingWord(first_line))
    IN  (call.method = "_parse_conventional_commit" /\ call.done
            /\ ~Contains(message, BreakingChange)
            /\ HeaderShape(first_line))
            => call.result = IF commit_type = TypeFeat THEN "minor" ELSE "patch"

\* "wip: a": a type that is neither feat nor fix
C16_Witness ==
    /\ call.method = "_parse_conventional_commit" /\ call.done
    /\ call.args[1] = MsgUnknownType
    /\ call.result = "patch"

----------------------------------------------------------------------------
(* Version arithmetic *)

\* C17: for a version of three non-negative integers, _bump_version returns
\* (major+1, 0, 0) for major, (major, minor+1, 0) for minor, (major, minor,
\* patch+1) for patch, and the version itself for None and any other kind.
C17_BumpArithmetic ==
    (call.method = "_bump_version" /\ call.done) =>
        \A major, minor, patch \in 0..MaxComponent :
            call.args[1] = FormatVersion(major, minor, patch) =>
                /\ call.result.ok
                /\ call.result.v =
                      CASE call.args[2] = "major" -> FormatVersion(major + 1, 0, 0)
                        [] call.args[2] = "minor" -> FormatVersion(major, minor + 1, 0)
                        [] call.args[2] = "patch" ->
                              FormatVersion(major, minor, patch + 1)
                        [] OTHER -> call.args[1]

\* a minor bump that carries into a second digit and resets the patch
C17_Witness ==
    /\ call.method = "_bump_version" /\ call.done
    /\ call.args = <<FormatVersion(1, MaxComponent - 1, MaxComponent), "minor">>
    /\ call.result.v = FormatVersion(1, MaxComponent, 0)

\* the text is three parts separated by dots, each a non-empty run of digits
IsVersionText(version) ==
    LET parts == Split(version, ".")
    IN  /\ Len(parts) = 3
        /\ \A i \in 1..3 :
              /\ parts[i] # <<>>
              /\ \A j \in 1..Len(parts[i]) : IsDigit(parts[i][j])

\* C18 (as claimed): a version text that is not three dot-separated
\* non-negative integers makes _bump_version fail for every bump kind; no
\* version is returned.
C18_MalformedVersionRejected ==
    (call.method = "_bump_version" /\ call.done /\ ~IsVersionText(call.args[1]))
        => ~call.result.ok

----------------------------------------------------------------------------
(* Failures of the external steps *)

\* C21 (as claimed): when the step that creates the tag ends and the tag does
\* not exist, the package ends in Failed and is not recorded as updated.
C21_TagCreationFailureIsFatal ==
    [][(pc = "create_tag" /\ TagName(package_info, new_version) \notin tags')
          => (outcome'[package_name] = "Failed" /\ pc' # "record")]_vars

\* C22: a failure of the commit log query makes the package Skipped, not
\* Failed: the step writes no manifest, creates no tag, records no result and
\* leaves the package as it was discovered.
C22_LogFailureIsSkip ==
    [][(pc = "determine" /\ (faults' # faults \/ prev_commit = 1))
          => /\ outcome'[package_name] = "Skipped"
             /\ UNCHANGED <<tags, pyproject, packages, updated_versions>>]_vars

\* the first package has been skipped because its log query failed, although
\* its commits call for a bump
C22_Witness ==
    /\ pc = "determine" /\ idx = 2
    /\ faults = faults0 + 1
    /\ outcome[Feluda] = "Skipped"
    /\ determine_package_bump(Feluda, FALSE) # None

----------------------------------------------------------------------------
(* The order of the steps *)

\* the steps of the loop body of update_package_versions, in program order
Steps == <<"determine", "bump", "tag_exists", "write", "create_tag", "record">>
StepOf(position) == CHOOSE i \in 1..Len(Steps) : Steps[i] = position
InLoop == pc \in {Steps[i] : i \in 1..Len(Steps)}
Finished == {"Done", "Skipped", "Failed"}

\* the packages before the current one are finished, the current one and the
\* ones after it have no outcome yet
OneAtATime ==
    InLoop => \A i \in 1..Len(package_names) :
                 outcome[package_names[i]] \in
                    (IF i < idx THEN Finished ELSE {"Idle"})

\* one step of the loop body: the same package moves to the next step (or
\* repeats the tag test), or the package is finished and the loop goes to the
\* next package; manifest, tags and results change in their own step only
InOrder ==
    InLoop =>
      /\ idx' = idx =>
            /\ StepOf(pc') \in {StepOf(pc) + 1} \cup
                               (IF pc = "tag_exists" THEN {StepOf(pc)} ELSE {})
            /\ outcome' = outcome
      /\ idx' # idx =>
            /\ idx' = idx + 1
            /\ pc' \in {"determine", "report"}
            /\ outcome'[package_name] \in Finished
            /\ \A r \in Roots \ {package_name} : outcome'[r] = outcome[r]
      /\ outcome'[package_name] = "Done" => pc = "record"
      /\ (pyproject' # pyproject \/ packages' # packages) =>
            /\ pc = "write"
            /\ TagName(package_info, new_version) \notin tags
      /\ tags' # tags =>
            /\ pc = "create_tag"
            /\ pyproject[package_name].version = new_version
      /\ updated_versions' # updated_versions => pc = "record"

\* C23: every package goes through the steps in the order determine, bump,
\* tag resolution, manifest write, tag creation, result: the manifest is
\* written only after tag resolution has finished, the tag is created only
\* after the manifest was written, the result is recorded only after the tag
\* creation step, and the packages are processed one at a time.
C23_StepOrdering == []OneAtATime /\ [][InOrder]_vars

\* the first package has gone through every step and the second one starts
C23_Witness ==
    /\ pc = "determine" /\ idx = 2
    /\ outcome[package_names[1]] = "Done"
    /\ ResultTag(package_names[1]) \in tags \ tags0

----------------------------------------------------------------------------
(* What a step leaves alone *)

\* a skipped package is as the run found it and has no result
SkippedAsFound ==
    (InLoop \/ Returned) =>
       \A p \in DOMAIN packages :
          outcome[p] = "Skipped" =>
             /\ packages[p] = InfoAtStart(p)
             /\ pyproject[p] = pyproject0[p]
             /\ p \notin DOMAIN updated_versions

\* the step that skips a package changes nothing and goes straight to the next
\* package, without the tag test
SkipStep ==
    (pc = "determine" /\ outcome'[package_name] = "Skipped") =>
       /\ UNCHANGED <<tags, pyproject, packages, updated_versions>>
       /\ idx' = idx + 1
       /\ pc' \in {"determine", "report"}

\* C24: a package with no bump is skipped untouched: its version in memory,
\* its manifest and the tags are unchanged, the tags are not queried for it
\* and no result is recorded for it.
C24_SkippedUntouched == []SkippedAsFound /\ [][SkipStep]_vars

\* a package without commits in the range has been skipped in a run that has
\* released another package
C24_Witness ==
    /\ Returned
    /\ faults = faults0
    /\ \E p \in DOMAIN packages : outcome[p] = "Skipped"
    /\ \E q \in DOMAIN packages : outcome[q] = "Done"

\* the tags the run found are still there, and every tag added since is the
\* tag of one package's version: no package accounts for two tags
TagsKept ==
    (InLoop \/ Returned) =>
       /\ tags0 \subseteq tags
       /\ tags \ tags0 \subseteq
             {TagName(packages[p], packages[p].current_version) :
                 p \in DOMAIN packages}

\* a step removes no tag; tags are added by the tag creation step only, and
\* only the tag of the candidate version; when that tag exists already and the
\* tag list can be read, create_tag changes nothing and returns normally
TagStep ==
    /\ tags \subseteq tags'
    /\ tags' # tags =>
          /\ pc = "create_tag"
          /\ tags' = tags \cup {TagName(package_info, new_version)}
    /\ (/\ pc = "create_tag"
        /\ TagName(package_info, new_version) \in tags
        /\ faults' = faults) =>
          /\ tags' = tags
          /\ pc' = "record"

\* C25: existing tags are never touched: every tag that exists before a run
\* exists after it, a run only adds tags, at most one per package, and asking
\* for a tag whose name exists already is a no-op, not an error.
C25_ExistingTagsKept == []TagsKept /\ [][TagStep]_vars

\* a run that found tags has released its first package, and the tag of the
\* second package's candidate exists when create_tag is called
C25_Witness ==
    /\ pc = "create_tag" /\ idx = 2
    /\ tags0 # {}
    /\ outcome[package_names[1]] = "Done"
    /\ ResultTag(package_names[1]) \in tags \ tags0
    /\ TagName(package_info, new_version) \in tags

\* up to its write step a package is as the run found it, and a released
\* package holds its new version, which is not the one it had
VersionChangedOnce ==
    (InLoop \/ Returned) =>
       \A i \in 1..Len(package_names) :
          LET p == package_names[i]
          IN  /\ (i > idx \/ (i = idx /\ StepOf(pc) <= StepOf("write"))) =>
                    /\ packages[p] = InfoAtStart(p)
                    /\ pyproject[p] = pyproject0[p]
              /\ outcome[p] = "Done" =>
                    /\ packages[p].current_version # pyproject0[p].version
                    /\ packages[p].current_version = pyproject[p].version

\* a step changes the version in memory and the manifest of the package being
\* processed only, and only in its write step
OwnPackageOnly ==
    InLoop =>
       \A r \in Roots :
          (\/ pyproject'[r] # pyproject[r]
           \/ (r \in DOMAIN packages /\ packages'[r] # packages[r])) =>
             (r = package_name /\ pc = "write")

\* C26: processing a package changes the version and the manifest of that
\* package only; in one run the version of a package is changed at most once,
\* and exactly once when the package is released.
C26_NoCrossPackageMutation == []VersionChangedOnce /\ [][OwnPackageOnly]_vars

\* both packages have been released in one run, each with its own version
C26_Witness ==
    /\ Returned
    /\ \A p \in Roots : p \in DOMAIN packages /\ outcome[p] = "Done"
    /\ packages[Feluda].current_version # packages[OperatorA].current_version

\* the steps before the write step change neither tags nor results, and a
\* package that fails in the bump step or in the tag test is left as the run
\* found it
EarlyFailure ==
    /\ pc \in {"determine", "bump", "tag_exists"} =>
          UNCHANGED <<tags, updated_versions>>
    /\ (pc \in {"bump", "tag_exists"} /\ outcome'[package_name] = "Failed") =>
          /\ packages'[package_name] = InfoAtStart(package_name)
          /\ pyproject'[package_name] = pyproject0[package_name]
          /\ package_name \notin DOMAIN updated_versions'

\* C27: a package that fails early (a malformed current version in the bump
\* step, a failing tag query in tag resolution) leaves no trace: its version
\* in memory, its manifest and the tags are as before it was processed and no
\* result is recorded.
C27_EarlyFailureLeavesNoTrace == [][EarlyFailure]_vars

\* one run in which the first package failed on its malformed version and the
\* second failed in the tag query
C27_Witness ==
    /\ Returned
    /\ pyproject0[Feluda].version = VersionBad
    /\ outcome[Feluda] = "Failed"
    /\ outcome[OperatorA] = "Failed"
    /\ faults = faults0 + 1
    /\ packages[OperatorA] = InfoAtStart(OperatorA)
    /\ tags = tags0

----------------------------------------------------------------------------
(* The results of a run *)

\* C28 (as claimed): the tags of the packages released in one run are pairwise
\* distinct, also for packages whose templates give the same tag name for the
\* same version, and create_tag is never called with a name that exists.
C28_DistinctReleaseTags ==
    /\ pc = "create_tag" => TagName(package_info, new_version) \notin tags
    /\ Returned =>
          \A p, q \in DOMAIN updated_versions :
             p # q => ResultTag(p) # ResultTag(q)

\* the three components of a version text as numbers
Components(version) ==
    LET parts == Split(version, ".")
    IN  [i \in 1..3 |-> ParseInt(parts[i]).val]

\* the lexicographic order on (major, minor, patch)
Precedes(old, new) ==
    LET o == Components(old)
        n == Components(new)
    IN  \/ o[1] < n[1]
        \/ o[1] = n[1] /\ o[2] < n[2]
        \/ o[1] = n[1] /\ o[2] = n[2] /\ o[3] < n[3]

\* C29 (as claimed): for every result of a run the new version is greater than
\* the old one, the version in memory and the version in the manifest both
\* equal the new version, and the tag formatted from the package's name and
\* the new version exists.
C29_ReleaseConsistency ==
    Returned =>
       \A p \in DOMAIN updated_versions :
          LET released == updated_versions[p]
          IN  /\ Precedes(released.old_version, released.new_version)
              /\ packages[p].current_version = released.new_version
              /\ pyproject[p].version = released.new_version
              /\ ResultTag(p) \in tags

====
